---- MODULE Spec2Model ----
(***************************************************************************)
(* Model of DynamicStruct (src/dynamicstruct/dynamicstruct.py) and of its  *)
(* field descriptor DynamicStructField (src/dynamicstruct/schemas.py).     *)
(*                                                                         *)
(* Python objects are modelled by reference: `heap` holds the field        *)
(* objects, grouped in blocks.  Block 0 holds the objects of the class     *)
(* attribute `fields` (the templates); block s holds the objects owned by  *)
(* the instance bound to the caller's variable s.  inst[s] names the block *)
(* the `_fields` mapping of that instance refers to.                       *)
(*                                                                         *)
(* Python values are records [t, n, b]: t is the Python type, n the int    *)
(* and b the bytes, so that an int stored in a bytes field (and the other  *)
(* way round) is representable.                                            *)
(***************************************************************************)
EXTENDS Integers, Sequences, FiniteSets, TLC

VARIABLES cls, heap, inst, last

vars == <<cls, heap, inst, last>>

\* ---------------------------------------------------------------- bounds
MaxBuf == 3
MaxPayload == 1

\* the byte values the caller uses: a falsy and a truthy one
Byte == {0, 1}
\* the caller's two variables, "A" and "B"
Slots == {1, 2}
TemplateBlock == 0
Blocks == {TemplateBlock} \cup Slots
NoInst == 0 - 1

RECURSIVE SeqsUpTo(_, _)
SeqsUpTo(S, n) ==
    IF n = 0 THEN {<<>>}
    ELSE LET shorter == SeqsUpTo(S, n - 1)
         IN shorter \cup {Append(q, x) : q \in {r \in shorter : Len(r) = n - 1}, x \in S}

Buffers == SeqsUpTo(Byte, MaxBuf)

\* ---------------------------------------------------------- Python values
None == [t |-> "none", n |-> 0, b |-> <<>>]
IntV(k) == [t |-> "int", n |-> k, b |-> <<>>]
BytesV(q) == [t |-> "bytes", n |-> 0, b |-> q]
StrV == [t |-> "str", n |-> 0, b |-> <<>>]

\* Python truthiness, as used by `or`
Falsy(v) ==
    \/ v.t = "none"
    \/ v.t = "int" /\ v.n = 0
    \/ v.t = "bytes" /\ v.b = <<>>

\* len(v); -1 stands for the TypeError of len() on an int or None
PyLen(v) == IF v.t = "bytes" THEN Len(v.b) ELSE -1

\* ------------------------------------------------------- field descriptor
DynamicStructField(name, code, length, default, match_length) ==
    [name |-> name, struct |-> code, length |-> length, default |-> default,
     value |-> None, match_length |-> match_length]

\* dataclasses.replace(k): a new object with the same attribute values
replace(k) == k

\* ------------------------------------------------------------ error kinds
Ok == "ok"
NameError == "NameError"
TypeError == "TypeError"
BadSchema == "ValueError: Only one field can have match_length set to True"
StructError == "struct.error"
ValidationFailed == "ValueError: Failed to validate instance"

\* ------------------------------------------------- the struct module
\* A format string is the byte-order character followed by one item per
\* field; an item is an optional decimal count and a format character.
Codes == {"b", "B", "H", "s"}

UnitSize(code) == IF code = "H" THEN 2 ELSE 1

\* f"{f.length if f.length != 1 else ''}{f.struct}"
FormatItem(f) ==
    [hasCount |-> f.length /= 1, count |-> f.length, code |-> f.struct]

\* the repeat count struct reads from an item: no count means 1
ItemCount(it) == IF it.hasCount THEN it.count ELSE 1

\* a count printed from a negative int starts with "-": "bad char in struct format"
FormatOK(fmt) ==
    /\ fmt.endian = "<"
    /\ \A i \in 1..Len(fmt.items) :
          /\ fmt.items[i].code \in Codes
          /\ fmt.items[i].hasCount => fmt.items[i].count >= 0

RECURSIVE ItemsSize(_)
ItemsSize(items) ==
    IF items = <<>> THEN 0
    ELSE ItemCount(Head(items)) * UnitSize(Head(items).code) + ItemsSize(Tail(items))

\* struct.calcsize(fmt): little-endian, no padding
calcsize(fmt) ==
    IF FormatOK(fmt) THEN [err |-> Ok, n |-> ItemsSize(fmt.items)]
    ELSE [err |-> StructError, n |-> 0]

\* one unit of a numeric format character, little-endian
DecodeUnit(code, q) ==
    IF code = "H" THEN q[1] + 256 * q[2]
    ELSE IF code = "b" /\ q[1] >= 128 THEN q[1] - 256
    ELSE q[1]

\* the values one item yields: "s" yields one bytes object of `count` bytes,
\* any other character yields `count` separate numbers
ItemValues(it, q) ==
    IF it.code = "s" THEN << BytesV(SubSeq(q, 1, ItemCount(it))) >>
    ELSE [k \in 1..ItemCount(it) |->
            IntV(DecodeUnit(it.code,
                 SubSeq(q, (k - 1) * UnitSize(it.code) + 1, k * UnitSize(it.code))))]

RECURSIVE UnpackItems(_, _)
UnpackItems(items, q) ==
    IF items = <<>> THEN <<>>
    ELSE LET w == ItemCount(Head(items)) * UnitSize(Head(items).code)
         IN ItemValues(Head(items), SubSeq(q, 1, w))
              \o UnpackItems(Tail(items), SubSeq(q, w + 1, Len(q)))

\* struct.unpack(fmt, buffer): the tuple of decoded values
struct_unpack(fmt, buffer) ==
    IF ~FormatOK(fmt) \/ ItemsSize(fmt.items) /= Len(buffer)
    THEN [err |-> StructError, values |-> <<>>]
    ELSE [err |-> Ok, values |-> UnpackItems(fmt.items, buffer)]

\* range of one numeric format character
InRange(code, k) ==
    IF code = "H" THEN k >= 0 /\ k <= 65535
    ELSE IF code = "b" THEN k >= 0 - 128 /\ k <= 127
    ELSE k >= 0 /\ k <= 255

\* number of arguments struct.pack wants for one item
ItemArgs(it) == IF it.code = "s" THEN 1 ELSE ItemCount(it)

RECURSIVE ItemsArgs(_)
ItemsArgs(items) ==
    IF items = <<>> THEN 0 ELSE ItemArgs(Head(items)) + ItemsArgs(Tail(items))

\* little-endian bytes of one number
EncodeUnit(code, k) ==
    IF code = "H" THEN << k % 256, k \div 256 >>
    ELSE IF k < 0 THEN << k + 256 >>
    ELSE << k >>

RECURSIVE EncodeUnits(_, _)
EncodeUnits(code, args) ==
    IF args = <<>> THEN <<>>
    ELSE EncodeUnit(code, Head(args).n) \o EncodeUnits(code, Tail(args))

\* "s": the bytes cut or padded with zero bytes to `count`
EncodeBytes(q, count) ==
    [k \in 1..count |-> IF k <= Len(q) THEN q[k] ELSE 0]

ArgOK(it, v) ==
    IF it.code = "s" THEN v.t = "bytes"
    ELSE v.t = "int" /\ InRange(it.code, v.n)

RECURSIVE ArgsOK(_, _)
ArgsOK(items, args) ==
    IF items = <<>> THEN TRUE
    ELSE /\ \A k \in 1..ItemArgs(Head(items)) : ArgOK(Head(items), args[k])
         /\ ArgsOK(Tail(items), SubSeq(args, ItemArgs(Head(items)) + 1, Len(args)))

RECURSIVE PackItems(_, _)
PackItems(items, args) ==
    IF items = <<>> THEN <<>>
    ELSE LET it == Head(items)
             k == ItemArgs(it)
         IN (IF it.code = "s" THEN EncodeBytes(args[1].b, ItemCount(it))
             ELSE EncodeUnits(it.code, SubSeq(args, 1, k)))
              \o PackItems(Tail(items), SubSeq(args, k + 1, Len(args)))

\* struct.pack(fmt, *args)
struct_pack(fmt, args) ==
    IF ~FormatOK(fmt) THEN [err |-> StructError, out |-> <<>>]
    ELSE IF ItemsArgs(fmt.items) /= Len(args) THEN [err |-> StructError, out |-> <<>>]
    ELSE IF ~ArgsOK(fmt.items, args) THEN [err |-> StructError, out |-> <<>>]
    ELSE [err |-> Ok, out |-> PackItems(fmt.items, args)]

\* ------------------------------------------------------ DynamicStruct
\* `fields` below is the ordered collection self._fields.values() of one
\* instance: a sequence of field objects in declaration order.

HasField(fields, name) == \E i \in 1..Len(fields) : fields[i].name = name

FieldIndex(fields, name) ==
    CHOOSE i \in 1..Len(fields) : fields[i].name = name

\* what the class defines; any other attribute name reaches __getattr__
ClassAttributes ==
    {"fields", "_fields", "endian_struct", "struct", "size", "values",
     "from_buffer", "_set_length", "_set_match_length_pack",
     "_set_match_length_unpack", "on_pack", "is_valid", "pack", "unpack"}

\* DynamicStruct.__getattr__
getattr(fields, name) ==
    IF HasField(fields, name)
    THEN LET f == fields[FieldIndex(fields, name)]
         IN [err |-> Ok, v |-> IF Falsy(f.value) THEN f.default ELSE f.value]
    ELSE [err |-> NameError, v |-> None]

\* DynamicStruct.__setattr__
setattr(fields, name, v) ==
    IF HasField(fields, name)
    THEN [err |-> Ok,
          fields |-> [fields EXCEPT ![FieldIndex(fields, name)].value = v]]
    ELSE [err |-> NameError, fields |-> fields]

\* DynamicStruct.struct: the joint format of all fields
struct(fields) ==
    [endian |-> "<", items |-> [i \in 1..Len(fields) |-> FormatItem(fields[i])]]

\* DynamicStruct.size
size(fields) == calcsize(struct(fields))

\* DynamicStruct.values: the dict, as its items in insertion order
values(fields) ==
    [i \in 1..Len(fields) |->
        [name |-> fields[i].name, v |-> getattr(fields, fields[i].name).v]]

\* iterating the dict (`*self.values`) yields its keys, which are str
StarValues(fields) == [i \in 1..Len(fields) |-> StrV]

MatchFields(fields) == {i \in 1..Len(fields) : fields[i].match_length}

\* DynamicStruct._set_match_length_pack
RECURSIVE set_match_length_pack_from(_, _)
set_match_length_pack_from(fields, i) ==
    IF i > Len(fields) THEN [err |-> Ok, fields |-> fields]
    ELSE IF ~fields[i].match_length THEN set_match_length_pack_from(fields, i + 1)
    ELSE IF PyLen(fields[i].value) < 0 THEN [err |-> TypeError, fields |-> fields]
    ELSE set_match_length_pack_from(
             [fields EXCEPT ![i].length = PyLen(fields[i].value)], i + 1)

set_match_length_pack(fields) == set_match_length_pack_from(fields, 1)

\* DynamicStruct._set_match_length_unpack
set_match_length_unpack(fields, buffer_length) ==
    LET match_fields == MatchFields(fields)
    IN IF Cardinality(match_fields) > 1 THEN [err |-> BadSchema, fields |-> fields]
       ELSE IF Cardinality(match_fields) = 1
       THEN LET m == CHOOSE i \in match_fields : TRUE
                zeroed == [fields EXCEPT ![m].length = 0]
                sz == size(zeroed)
            IN IF sz.err /= Ok THEN [err |-> sz.err, fields |-> zeroed]
               ELSE [err |-> Ok,
                     fields |-> [zeroed EXCEPT ![m].length = buffer_length - sz.n]]
       ELSE [err |-> Ok, fields |-> fields]

\* for field, value in zip(self._fields.values(), values): field.value = value
ZipAssign(fields, vals) ==
    [i \in 1..Len(fields) |->
        IF i <= Len(vals) THEN [fields[i] EXCEPT !.value = vals[i]] ELSE fields[i]]

\* on_pack: the base class does nothing; the docstring's HelloMessage
\* overrides it with `self.world = not self.world` (True/False are the ints 1/0)
on_pack(c, fields) ==
    IF c.on_pack = "flip_world"
    THEN setattr(fields, "world",
                 IntV(IF Falsy(getattr(fields, "world").v) THEN 1 ELSE 0)).fields
    ELSE fields

\* is_valid: the base class returns True; a subclass may override it
is_valid(c, fields) ==
    IF c.is_valid = "never" THEN FALSE
    ELSE IF c.is_valid = "b_nonzero" THEN ~Falsy(getattr(fields, "b").v)
    ELSE TRUE

\* unpack as it would be if a failed validation restored the fields
unpack_rollback(c, fields, buffer, validate) ==
    LET resolved == set_match_length_unpack(fields, Len(buffer))
    IN IF resolved.err /= Ok THEN resolved
       ELSE LET decoded == struct_unpack(struct(resolved.fields), buffer)
            IN IF decoded.err /= Ok
               THEN [err |-> decoded.err, fields |-> resolved.fields]
               ELSE LET assigned == ZipAssign(resolved.fields, decoded.values)
                    IN IF validate /\ ~is_valid(c, assigned)
                       THEN [err |-> ValidationFailed, fields |-> fields]
                       ELSE [err |-> Ok, fields |-> assigned]

\* DynamicStruct.unpack
unpack(c, fields, buffer, validate) ==
    LET resolved == set_match_length_unpack(fields, Len(buffer))
    IN IF resolved.err /= Ok THEN resolved
       ELSE LET decoded == struct_unpack(struct(resolved.fields), buffer)
            IN IF decoded.err /= Ok
               THEN [err |-> decoded.err, fields |-> resolved.fields]
               ELSE LET assigned == ZipAssign(resolved.fields, decoded.values)
                    IN IF validate /\ ~is_valid(c, assigned)
                       THEN [err |-> ValidationFailed, fields |-> assigned]
                       ELSE [err |-> Ok, fields |-> assigned]

\* DynamicStruct.pack.  Its first statement calls self._set_match_length,
\* which the class does not define: the lookup goes to __getattr__.
pack(c, fields) ==
    LET defined == "_set_match_length" \in ClassAttributes
        lookup == IF defined THEN [err |-> Ok, v |-> None]
                  ELSE getattr(fields, "_set_match_length")
    IN IF lookup.err /= Ok THEN [err |-> lookup.err, fields |-> fields, out |-> <<>>]
       ELSE IF ~defined THEN [err |-> TypeError, fields |-> fields, out |-> <<>>]
       ELSE LET hooked == on_pack(c, fields)
                packed == struct_pack(struct(hooked), StarValues(hooked))
            IN [err |-> packed.err, fields |-> hooked, out |-> packed.out]

\* ------------------------------------------------------- message types
HelloMessage ==
    [fields |-> << DynamicStructField("hello", "b", 1, IntV(1), FALSE),
                   DynamicStructField("world", "B", 1, IntV(0), FALSE),
                   DynamicStructField("payload", "s", 1, IntV(0), TRUE) >>,
     on_pack |-> "flip_world", is_valid |-> "default"]

Tagged ==
    [fields |-> << DynamicStructField("a", "B", 1, IntV(1), FALSE),
                   DynamicStructField("tag", "s", 2, BytesV(<<1, 1>>), FALSE) >>,
     on_pack |-> "default", is_valid |-> "never"]

Samples ==
    [fields |-> << DynamicStructField("a", "B", 2, IntV(0), FALSE),
                   DynamicStructField("b", "B", 1, IntV(0), FALSE),
                   DynamicStructField("p", "s", 1, IntV(0), TRUE) >>,
     on_pack |-> "default", is_valid |-> "default"]

TwoPayloads ==
    [fields |-> << DynamicStructField("x", "s", 1, IntV(0), TRUE),
                   DynamicStructField("y", "s", 1, IntV(0), TRUE) >>,
     on_pack |-> "default", is_valid |-> "default"]

Wide ==
    [fields |-> << DynamicStructField("n", "H", 1, IntV(0), FALSE),
                   DynamicStructField("b", "B", 1, IntV(0), FALSE) >>,
     on_pack |-> "default", is_valid |-> "b_nonzero"]

Classes == << HelloMessage, Tagged, Samples, TwoPayloads, Wide >>

\* ---------------------------------------------------------- the caller
\* values a caller assigns to a field
IntValues == {IntV(k) : k \in Byte}

BytesValues == {BytesV(q) : q \in SeqsUpTo(Byte, MaxPayload)}

SetValues(f) == IF f.struct = "s" THEN BytesValues ELSE IntValues

Absent == [t |-> "absent", n |-> 0, b |-> <<>>]

\* keyword arguments: per declared field, a value or none given
RECURSIVE Kwargs(_)
Kwargs(fields) ==
    IF fields = <<>> THEN {<<>>}
    ELSE {<<v>> \o rest : v \in SetValues(Head(fields)) \cup {Absent},
                          rest \in Kwargs(Tail(fields))}

NoKwargs(fields) == [i \in 1..Len(fields) |-> Absent]

\* keyword arguments naming at most one field
OneKwarg(fields) ==
    {NoKwargs(fields)} \cup
    UNION {{[NoKwargs(fields) EXCEPT ![i] = v] : v \in SetValues(fields[i])} :
           i \in 1..Len(fields)}

\* __init__ as it would be if it kept the class's own field objects
InstanceBlock_shared(s) == TemplateBlock

\* the block holding the field objects of the instance built for slot s:
\* __init__ stores a new OrderedDict of replace(k) copies on the instance
InstanceBlock(s) == s

\* DynamicStruct.__init__ on the objects of the template block
init(template, kw) ==
    [i \in 1..Len(template) |->
        IF kw[i] = Absent THEN replace(template[i])
        ELSE [replace(template[i]) EXCEPT !.value = kw[i]]]

Fields(s) == heap[inst[s]]

Class == Classes[cls]

\* `last` records the call the caller made last and how it ended
NoOp == [op |-> "none", slot |-> 0, err |-> Ok, buf |-> <<>>, validate |-> FALSE,
         out |-> <<>>, changed |-> FALSE]

Idle == last.op = "none"

Init ==
    /\ cls \in DOMAIN Classes
    /\ heap = [b \in Blocks |-> IF b = TemplateBlock THEN Classes[cls].fields ELSE <<>>]
    /\ inst = [s \in Slots |-> NoInst]
    /\ last = NoOp

\* s = Class(**kw)
Construct(s, kw) ==
    LET b == InstanceBlock(s)
    IN /\ Idle
       /\ heap' = [heap EXCEPT ![b] = init(heap[TemplateBlock], kw)]
       /\ inst' = [inst EXCEPT ![s] = b]
       /\ last' = [NoOp EXCEPT !.op = "init", !.slot = s, !.changed = heap' /= heap]
       /\ UNCHANGED cls

\* s.<name> = v
SetAttr(s, name, v) ==
    /\ Idle
    /\ inst[s] /= NoInst
    /\ LET r == setattr(Fields(s), name, v)
       IN /\ heap' = [heap EXCEPT ![inst[s]] = r.fields]
          /\ last' = [NoOp EXCEPT !.op = "setattr", !.slot = s, !.err = r.err,
                                  !.changed = heap' /= heap]
    /\ UNCHANGED <<cls, inst>>

\* s.pack()
Pack(s) ==
    /\ Idle
    /\ inst[s] /= NoInst
    /\ LET r == pack(Class, Fields(s))
       IN /\ heap' = [heap EXCEPT ![inst[s]] = r.fields]
          /\ last' = [NoOp EXCEPT !.op = "pack", !.slot = s, !.err = r.err,
                                  !.out = r.out, !.changed = heap' /= heap]
    /\ UNCHANGED <<cls, inst>>

\* s.unpack(buffer, validate)
Unpack(s, buffer, validate) ==
    /\ Idle
    /\ inst[s] /= NoInst
    /\ LET r == unpack(Class, Fields(s), buffer, validate)
       IN /\ heap' = [heap EXCEPT ![inst[s]] = r.fields]
          /\ last' = [NoOp EXCEPT !.op = "unpack", !.slot = s, !.err = r.err,
                                  !.buf = buffer, !.validate = validate,
                                  !.changed = heap' /= heap]
    /\ UNCHANGED <<cls, inst>>

\* s = Class.from_buffer(buffer, validate): when unpack raises, the new
\* instance is dropped and s keeps what it was bound to
FromBuffer(s, buffer, validate) ==
    LET b == InstanceBlock(s)
        built == [heap EXCEPT ![b] = init(heap[TemplateBlock],
                                          NoKwargs(heap[TemplateBlock]))]
        r == unpack(Class, built[b], buffer, validate)
        done == [built EXCEPT ![b] = r.fields]
    IN /\ Idle
       /\ IF r.err = Ok
          THEN heap' = done /\ inst' = [inst EXCEPT ![s] = b]
          ELSE heap' = [done EXCEPT ![s] = heap[s]] /\ inst' = inst
       /\ last' = [NoOp EXCEPT !.op = "from_buffer", !.slot = s, !.err = r.err,
                               !.buf = buffer, !.validate = validate,
                               !.changed = heap' /= heap]
       /\ UNCHANGED cls

\* the caller has looked at the outcome and goes on to its next call
Return ==
    /\ ~Idle
    /\ last' = NoOp
    /\ UNCHANGED <<cls, heap, inst>>

\* one instance, every message type, every operation
Next ==
    \/ \E kw \in Kwargs(Class.fields) : Construct(1, kw)
    \/ \E i \in 1..Len(Class.fields) :
          \E v \in SetValues(Class.fields[i]) : SetAttr(1, Class.fields[i].name, v)
    \/ Pack(1)
    \/ \E buffer \in Buffers, validate \in BOOLEAN : Unpack(1, buffer, validate)
    \/ \E buffer \in Buffers, validate \in BOOLEAN : FromBuffer(1, buffer, validate)
    \/ Return

Spec == Init /\ [][Next]_vars

\* two instances of HelloMessage: A (slot 1) is operated on, B (slot 2) is
\* only ever built; one keyword at most, and validation left at its default
InitIso == Init /\ cls = 1

NextIso ==
    \/ \E s \in Slots : \E kw \in OneKwarg(Class.fields) : Construct(s, kw)
    \/ \E i \in 1..Len(Class.fields) :
          \E v \in SetValues(Class.fields[i]) : SetAttr(1, Class.fields[i].name, v)
    \/ Pack(1)
    \/ \E buffer \in Buffers : Unpack(1, buffer, TRUE)
    \/ \E buffer \in Buffers : FromBuffer(1, buffer, TRUE)
    \/ Return

SpecIso == InitIso /\ [][NextIso]_vars

\* ====================================================== the properties
\* What the properties speak of, stated without the engine's operators.

\* the instance the caller operates on
Mine == Fields(1)

Constructed(s) == inst[s] /= NoInst

\* bytes a field occupies
Width(f) == f.length * UnitSize(f.struct)

RECURSIVE WidthUpTo(_, _)
WidthUpTo(fields, i) ==
    IF i = 0 THEN 0 ELSE Width(fields[i]) + WidthUpTo(fields, i - 1)

RECURSIVE StaticUpTo(_, _)
StaticUpTo(fields, i) ==
    IF i = 0 THEN 0
    ELSE (IF fields[i].match_length THEN 0 ELSE Width(fields[i]))
           + StaticUpTo(fields, i - 1)

\* total size of the fields not marked match-length
StaticSize(fields) == StaticUpTo(fields, Len(fields))

\* the bytes of the buffer at field i's position
Segment(fields, buffer, i) ==
    SubSeq(buffer, WidthUpTo(fields, i - 1) + 1, WidthUpTo(fields, i))

\* exactly one match-length field, and it is a byte sequence
OneBytesMatch(fields) ==
    /\ Cardinality(MatchFields(fields)) = 1
    /\ \A i \in MatchFields(fields) : fields[i].struct = "s"

TheMatch(fields) == CHOOSE i \in MatchFields(fields) : TRUE

\* value if one has been set, else the default
Effective(f) == IF f.value.t /= "none" THEN f.value ELSE f.default

EffectiveValues(fields) == [i \in 1..Len(fields) |-> Effective(fields[i])]

\* the buffer has the size the message type asks for
RightSized(fields, buffer) ==
    IF MatchFields(fields) = {} THEN WidthUpTo(fields, Len(fields)) = Len(buffer)
    ELSE Cardinality(MatchFields(fields)) = 1 /\ Len(buffer) >= StaticSize(fields)

\* C1: round trip. pack() on an instance of a message type without a
\* match-length field, holding encodable values, succeeds, and unpacking the
\* returned bytes gives back the same value for every declared field.
C1_RoundTrip ==
    (/\ last.op = "pack"
     /\ MatchFields(Mine) = {}
     /\ struct_pack(struct(Mine), EffectiveValues(Mine)).err = Ok)
    => /\ last.err = Ok
       /\ LET back == unpack(Class, init(Class.fields, NoKwargs(Class.fields)),
                             last.out, FALSE)
          IN /\ back.err = Ok
             /\ \A i \in 1..Len(Mine) :
                   getattr(back.fields, Mine[i].name).v = Effective(Mine[i])

\* C2: reading a declared field returns its value whenever one has been set,
\* whatever the value, and the default only when none has been set; `values`
\* maps every name to that same effective value.
C2_GetField ==
    \A s \in Slots : Constructed(s) =>
        \A i \in 1..Len(Fields(s)) :
            /\ getattr(Fields(s), Fields(s)[i].name).err = Ok
            /\ getattr(Fields(s), Fields(s)[i].name).v = Effective(Fields(s)[i])
            /\ values(Fields(s))[i].v = Effective(Fields(s)[i])

\* C3: with one byte-sequence match-length field whose value (given at
\* construction or assigned) is `payload`, size = static_size + len(payload).
C3_MatchLengthSize ==
    (/\ last.op \in {"init", "setattr"}
     /\ last.err = Ok
     /\ OneBytesMatch(Mine)
     /\ Mine[TheMatch(Mine)].value.t = "bytes")
    => size(Mine) = [err |-> Ok,
                     n |-> StaticSize(Mine) + Len(Mine[TheMatch(Mine)].value.b)]

\* C4: whatever happened to the instance before, unpack(buffer) with
\* len(buffer) >= static_size succeeds, sets the match-length field's repeat to
\* len(buffer) - static_size, leaves size = len(buffer) and stores in the
\* match-length field exactly the buffer bytes at its position.
C4_UnpackResolution ==
    (/\ last.op = "unpack"
     /\ OneBytesMatch(Mine)
     /\ Class.is_valid = "default"
     /\ Len(last.buf) >= StaticSize(Mine))
    => /\ last.err = Ok
       /\ Mine[TheMatch(Mine)].length = Len(last.buf) - StaticSize(Mine)
       /\ size(Mine) = [err |-> Ok, n |-> Len(last.buf)]
       /\ Mine[TheMatch(Mine)].value = BytesV(Segment(Mine, last.buf, TheMatch(Mine)))

\* C5: pack() resolves the match-length repeat, then runs on_pack, then
\* serializes every field's effective value in declaration order and returns
\* the bytes: with an on_pack that flips a boolean field, the bytes returned
\* encode the flipped value.
C5_PackOrdering ==
    (/\ last.op = "pack"
     /\ Class.on_pack = "flip_world"
     /\ Mine[TheMatch(Mine)].value.t = "bytes")
    => /\ last.err = Ok
       /\ last.changed
       /\ Mine[TheMatch(Mine)].length = Len(Mine[TheMatch(Mine)].value.b)
       /\ last.out = struct_pack(struct(Mine), EffectiveValues(Mine)).out

\* C6: with two or more match-length fields declared, construction succeeds
\* and pack(), unpack() and from_buffer() all fail with the bad-schema error.
C6_SchemaConflict ==
    Cardinality(MatchFields(Class.fields)) >= 2
    => /\ last.op = "init" => last.err = Ok /\ Constructed(last.slot)
       /\ last.op \in {"pack", "unpack", "from_buffer"} => last.err = BadSchema

\* C7: with a validation hook that always fails and a buffer of the right
\* size, unpack(validate=true) fails with the validation error, unpack(
\* validate=false) succeeds, and either way the fields hold the values decoded
\* from the buffer (no rollback); for any hook, the verdict is the hook's on
\* the fields as they are after the assignment.
C7_ValidationGating ==
    (last.op = "unpack" /\ RightSized(Mine, last.buf))
    => /\ Class.is_valid = "never" =>
             last.err = (IF last.validate THEN ValidationFailed ELSE Ok)
       /\ last.err = (IF last.validate /\ ~is_valid(Class, Mine)
                      THEN ValidationFailed ELSE Ok)
       /\ LET decoded == struct_unpack(struct(Mine), last.buf).values
          IN \A i \in 1..Len(Mine) : i <= Len(decoded) => Mine[i].value = decoded[i]

\* C7 witness: a validated unpack was rejected by the always-failing hook and
\* the instance holds the rejected values, which differ from those before
C7_Witness ==
    /\ last.op = "unpack"
    /\ Class.is_valid = "never"
    /\ last.validate
    /\ last.err = ValidationFailed
    /\ last.changed
    /\ \A i \in 1..Len(Mine) : Mine[i].value.t /= "none"

\* a buffer of the wrong size: shorter than the static portion (with a
\* match-length field), or not of the layout's size (without one)
WrongSized(fields, buffer) ==
    \/ Cardinality(MatchFields(fields)) = 1 /\ Len(buffer) < StaticSize(fields)
    \/ MatchFields(fields) = {} /\ WidthUpTo(fields, Len(fields)) /= Len(buffer)

\* C8: unpack of a buffer of the wrong size fails with the malformed-buffer
\* error and leaves every field's value and repeat count as before the call.
C8_AtomicFailure ==
    (last.op = "unpack" /\ WrongSized(Class.fields, last.buf))
    => last.err = StructError /\ ~last.changed

\* C9: a step on one instance leaves the other instance's field objects
\* (values, repeat counts, hence layout and size) and the class's template
\* fields as they were; a newly built instance starts from the declared
\* repeat counts and defaults, with only the given keywords set.
IsolationStep ==
    /\ heap'[TemplateBlock] = heap[TemplateBlock]
    /\ heap'[TemplateBlock] = Class.fields
    /\ \A s \in Slots :
          (Constructed(s) /\ last'.slot /= s)
          => inst'[s] = inst[s] /\ heap'[inst'[s]] = heap[inst[s]]
    /\ (last'.op = "init" \/ (last'.op = "from_buffer" /\ last'.err = Ok))
          => \A i \in 1..Len(Class.fields) :
                LET f == heap'[inst'[last'.slot]][i]
                IN /\ f.default = Class.fields[i].default
                   /\ f.match_length = Class.fields[i].match_length
                   /\ ~f.match_length => f.length = Class.fields[i].length
                   /\ last'.op = "init" =>
                         f.value \in SetValues(Class.fields[i]) \cup {None}

\* C9: instance isolation: every step is an IsolationStep
C9_Isolation == [][IsolationStep]_vars

\* C9 witness: both instances exist, and an unpack on A has just changed A's
\* match-length repeat count away from B's
C9_Witness ==
    /\ Constructed(1) /\ Constructed(2)
    /\ last.op = "unpack" /\ last.slot = 1 /\ last.changed
    /\ Fields(1)[TheMatch(Fields(1))].length /= Fields(2)[TheMatch(Fields(2))].length
    /\ Fields(2)[TheMatch(Fields(2))].length = Class.fields[TheMatch(Class.fields)].length

\* C10: after a successful unpack every field holds the value decoded from
\* its own segment of the buffer, and no decoded unit is dropped.
C10_OwnSegment ==
    (last.op = "unpack" /\ last.err = Ok)
    => /\ \A i \in 1..Len(Mine) :
             IF Mine[i].struct = "s"
             THEN Mine[i].value = BytesV(Segment(Mine, last.buf, i))
             ELSE /\ Mine[i].value.t = "int"
                  /\ \E k \in 1..Mine[i].length :
                        Mine[i].value.n =
                          DecodeUnit(Mine[i].struct,
                                     SubSeq(Segment(Mine, last.buf, i),
                                            (k - 1) * UnitSize(Mine[i].struct) + 1,
                                            k * UnitSize(Mine[i].struct)))
       /\ Len(struct_unpack(struct(Mine), last.buf).values) = Len(Mine)

====
